---- MODULE Spec2Model ----
(***************************************************************************)
(* Model of custom-mcp-servers/graphModeMCPs/graphmodeMetaKG/              *)
(* extract_parent_predicates.py: the hierarchy analysis pipeline           *)
(* (analyze_hierarchy, find_optimal_parents) over a predicate tree.        *)
(*                                                                         *)
(* A node is a Python dict, modelled as a function over the keys it has:   *)
(* "name" \in DOMAIN node is `'name' in node`, "children" \in DOMAIN node  *)
(* is `'children' in node`.  A Python number is modelled as a fraction in  *)
(* lowest terms, so that record equality is numeric equality.              *)
(***************************************************************************)
EXTENDS Integers, Sequences, FiniteSets, TLC

VARIABLES tree_data, pc, analysis, optimal_parents, min_children, max_depth,
          predicate_sets, argv, html_file, stdout, report_file, exit_code,
          exception, loop_i, loop_j, heap, stack

vars == <<tree_data, pc, analysis, optimal_parents, min_children, max_depth,
          predicate_sets, argv, html_file, stdout, report_file, exit_code,
          exception, loop_i, loop_j, heap, stack>>

\* The positions of the loops of analyze_biolink_hierarchy.py's main().
loopVars == <<loop_i, loop_j>>

\* The objects and the call stack of a traversal taken step by step.
traversalVars == <<heap, stack>>

\* The state of main() around the analysis: the command line, the input
\* file, what was printed, the report file, the exit status and the
\* exception in flight.
mainVars == <<argv, html_file, stdout, report_file, exit_code, exception>>

(***************************************************************************)
(* Bounds of the model.                                                    *)
(***************************************************************************)
MaxNodes == 3
MaxMinChildren == 2
MaxMaxDepth == 3

Names == {"related_to", "p", "q"}

(***************************************************************************)
(* Numbers: int / int in Python gives a float; the values that occur are   *)
(* small quotients, which floats compare exactly as the fractions do.      *)
(***************************************************************************)
RECURSIVE GCD(_, _)
GCD(a, b) == IF b = 0 THEN a ELSE GCD(b, a % b)

Frac(a, b) == LET g == GCD(a, b) IN [num |-> a \div g, den |-> b \div g]

Int2Num(a) == [num |-> a, den |-> 1]

NumLess(a, b) == a.num * b.den < b.num * a.den

NumLeq(a, b) == a.num * b.den <= b.num * a.den

(***************************************************************************)
(* Input trees: every ordered tree of at most MaxNodes nodes, each node    *)
(* with or without a name, each childless node with or without an (empty)  *)
(* children list; and the two trees the documentation works through.       *)
(***************************************************************************)
MkNode(hasName, nm, hasChildren, kids) ==
    (IF hasName THEN [name |-> nm] ELSE <<>>)
        @@ (IF hasChildren THEN [children |-> kids] ELSE <<>>)

Leaf(nm) == [name |-> nm]

RECURSIVE TreesN(_), ForestsN(_)
TreesN(n) ==
    {MkNode(hn, nm, TRUE, f) : hn \in BOOLEAN, nm \in Names, f \in ForestsN(n - 1)}
        \cup (IF n = 1
              THEN {MkNode(hn, nm, FALSE, <<>>) : hn \in BOOLEAN, nm \in Names}
              ELSE {})

ForestsN(m) ==
    IF m = 0 THEN {<<>>}
    ELSE UNION {{<<t>> \o f : t \in TreesN(k), f \in ForestsN(m - k)} : k \in 1..m}

WorkedExample ==
    [name |-> "A",
     children |-> << [name |-> "B",
                      children |-> <<Leaf("D"), Leaf("E"), Leaf("F"),
                                     Leaf("G"), Leaf("H")>>],
                     [name |-> "C", children |-> <<>>] >>]

MalformedExample ==
    [name |-> "A",
     children |-> << [children |-> <<Leaf("D"), Leaf("E")>>],
                     Leaf("C") >>]

InputTrees ==
    UNION {TreesN(n) : n \in 1..MaxNodes} \cup {WorkedExample, MalformedExample}

(***************************************************************************)
(* Sequence helpers.                                                       *)
(***************************************************************************)
RECURSIVE SumSeq(_)
SumSeq(s) == IF s = <<>> THEN 0 ELSE Head(s) + SumSeq(Tail(s))

RECURSIVE Flatten(_)
Flatten(ss) == IF ss = <<>> THEN <<>> ELSE Head(ss) \o Flatten(Tail(ss))

(***************************************************************************)
(* count_children_recursive(node, depth): <<total_children,                *)
(* direct_children>>.                                                      *)
(***************************************************************************)
\* Variant: counts the immediate children only.
count_children_direct_only(node, depth) ==
    IF "children" \in DOMAIN node
    THEN <<Len(node.children), Len(node.children)>>
    ELSE <<0, 0>>

\* Variant: returns the pair in the other order.
RECURSIVE count_children_swapped(_, _)
count_children_swapped(node, depth) ==
    IF "children" \in DOMAIN node
    THEN LET direct_children == Len(node.children)
             child_totals ==
                 [i \in 1..Len(node.children) |->
                     count_children_swapped(node.children[i], depth + 1)[2]]
         IN  <<direct_children, direct_children + SumSeq(child_totals)>>
    ELSE <<0, 0>>

RECURSIVE count_children_recursive(_, _)
count_children_recursive(node, depth) ==
    IF "children" \in DOMAIN node
    THEN LET direct_children == Len(node.children)
             child_totals ==
                 [i \in 1..Len(node.children) |->
                     count_children_recursive(node.children[i], depth + 1)[1]]
         IN  <<direct_children + SumSeq(child_totals), direct_children>>
    ELSE <<0, 0>>

(***************************************************************************)
(* extract_all_predicates(node, depth): the names in pre-order.            *)
(***************************************************************************)
\* Variant: stops at a node without a name, as analyze_node does.
RECURSIVE extract_named_only(_, _)
extract_named_only(node, depth) ==
    IF "name" \notin DOMAIN node THEN <<>>
    ELSE <<node.name>>
           \o (IF "children" \in DOMAIN node
               THEN Flatten([i \in 1..Len(node.children) |->
                                extract_named_only(node.children[i], depth + 1)])
               ELSE <<>>)

RECURSIVE extract_all_predicates(_, _)
extract_all_predicates(node, depth) ==
    (IF "name" \in DOMAIN node THEN <<node.name>> ELSE <<>>)
        \o (IF "children" \in DOMAIN node
            THEN Flatten([i \in 1..Len(node.children) |->
                             extract_all_predicates(node.children[i], depth + 1)])
            ELSE <<>>)

(***************************************************************************)
(* analyze_hierarchy.analyze_node(node, depth): the entries it appends to  *)
(* `analysis`, in the order it appends them.  all_predicates is the        *)
(* variable of the enclosing function.                                     *)
(***************************************************************************)
\* Variant: divides by the depth itself.
efficiency_of_by_depth(total_children, depth) ==
    IF depth > 0 THEN Frac(total_children, depth) ELSE Int2Num(total_children)

efficiency_of(total_children, depth) ==
    IF depth > 0 THEN Frac(total_children, depth + 1) ELSE Int2Num(total_children)

coverage_ratio_of(total_children, all_predicates) ==
    IF all_predicates # <<>> THEN Frac(total_children, Len(all_predicates))
    ELSE Int2Num(0)

\* Variant: skips a node without a name but still descends into its children.
RECURSIVE analyze_node_descending(_, _, _)
analyze_node_descending(node, depth, all_predicates) ==
    LET counts == count_children_recursive(node, 0)
        entry == [name |-> node.name,
                  depth |-> depth,
                  direct_children |-> counts[2],
                  total_children |-> counts[1],
                  coverage_ratio |-> coverage_ratio_of(counts[1], all_predicates),
                  efficiency |-> efficiency_of(counts[1], depth),
                  has_children |-> "children" \in DOMAIN node]
    IN  (IF "name" \in DOMAIN node THEN <<entry>> ELSE <<>>)
          \o (IF "children" \in DOMAIN node
              THEN Flatten([i \in 1..Len(node.children) |->
                               analyze_node_descending(node.children[i], depth + 1,
                                                       all_predicates)])
              ELSE <<>>)

\* Variant: appends a node's entry after the entries of its children.
RECURSIVE analyze_node_post_order(_, _, _)
analyze_node_post_order(node, depth, all_predicates) ==
    IF "name" \notin DOMAIN node THEN <<>>
    ELSE LET counts == count_children_recursive(node, 0)
             entry == [name |-> node.name,
                       depth |-> depth,
                       direct_children |-> counts[2],
                       total_children |-> counts[1],
                       coverage_ratio |-> coverage_ratio_of(counts[1], all_predicates),
                       efficiency |-> efficiency_of(counts[1], depth),
                       has_children |-> "children" \in DOMAIN node]
         IN  (IF "children" \in DOMAIN node
              THEN Flatten([i \in 1..Len(node.children) |->
                               analyze_node_post_order(node.children[i], depth + 1,
                                                       all_predicates)])
              ELSE <<>>)
               \o <<entry>>

\* Variant: has_children tells whether the node has at least one child.
RECURSIVE analyze_node_nonempty(_, _, _)
analyze_node_nonempty(node, depth, all_predicates) ==
    IF "name" \notin DOMAIN node THEN <<>>
    ELSE LET counts == count_children_recursive(node, 0)
             entry == [name |-> node.name,
                       depth |-> depth,
                       direct_children |-> counts[2],
                       total_children |-> counts[1],
                       coverage_ratio |-> coverage_ratio_of(counts[1], all_predicates),
                       efficiency |-> efficiency_of(counts[1], depth),
                       has_children |-> counts[2] > 0]
         IN  <<entry>>
               \o (IF "children" \in DOMAIN node
                   THEN Flatten([i \in 1..Len(node.children) |->
                                    analyze_node_nonempty(node.children[i], depth + 1,
                                                          all_predicates)])
                   ELSE <<>>)

RECURSIVE analyze_node(_, _, _)
analyze_node(node, depth, all_predicates) ==
    IF "name" \notin DOMAIN node THEN <<>>
    ELSE LET counts == count_children_recursive(node, 0)
             total_children == counts[1]
             direct_children == counts[2]
             entry == [name |-> node.name,
                       depth |-> depth,
                       direct_children |-> direct_children,
                       total_children |-> total_children,
                       coverage_ratio |-> coverage_ratio_of(total_children, all_predicates),
                       efficiency |-> efficiency_of(total_children, depth),
                       has_children |-> "children" \in DOMAIN node]
         IN  <<entry>>
               \o (IF "children" \in DOMAIN node
                   THEN Flatten([i \in 1..Len(node.children) |->
                                    analyze_node(node.children[i], depth + 1,
                                                 all_predicates)])
                   ELSE <<>>)

analyze_hierarchy(td) ==
    LET root == td[1]
        all_predicates == extract_all_predicates(root, 0)
    IN  analyze_node(root, 0, all_predicates)

(***************************************************************************)
(* find_optimal_parents(analysis, min_children, max_depth).                *)
(* list.sort(key=efficiency, reverse=True) is a stable sort into           *)
(* non-increasing key order: each element goes after the elements whose    *)
(* key is greater than or equal to its own.                                *)
(***************************************************************************)
\* Variant: no test on the name.
is_candidate_any_name(node, minc, maxd) ==
    /\ node.has_children
    /\ node.total_children >= minc
    /\ node.depth <= maxd

\* Variant: strictly more than min_children.
is_candidate_strict(node, minc, maxd) ==
    /\ node.has_children
    /\ node.total_children > minc
    /\ node.depth <= maxd
    /\ node.name # "related_to"

is_candidate(node, minc, maxd) ==
    /\ node.has_children
    /\ node.total_children >= minc
    /\ node.depth <= maxd
    /\ node.name # "related_to"

\* Variant: an element goes before the elements of equal key.
RECURSIVE insert_before_equal(_, _)
insert_before_equal(sorted, x) ==
    IF sorted = <<>> THEN <<x>>
    ELSE IF NumLess(x.efficiency, Head(sorted).efficiency)
         THEN <<Head(sorted)>> \o insert_before_equal(Tail(sorted), x)
         ELSE <<x>> \o sorted

RECURSIVE insert_by_efficiency(_, _)
insert_by_efficiency(sorted, x) ==
    IF sorted = <<>> THEN <<x>>
    ELSE IF NumLeq(x.efficiency, Head(sorted).efficiency)
         THEN <<Head(sorted)>> \o insert_by_efficiency(Tail(sorted), x)
         ELSE <<x>> \o sorted

RECURSIVE sort_by_efficiency(_, _)
sort_by_efficiency(sorted, rest) ==
    IF rest = <<>> THEN sorted
    ELSE sort_by_efficiency(insert_by_efficiency(sorted, Head(rest)), Tail(rest))

find_optimal_parents(an, minc, maxd) ==
    LET candidates == SelectSeq(an, LAMBDA node : is_candidate(node, minc, maxd))
    IN  sort_by_efficiency(<<>>, candidates)

(***************************************************************************)
(* The run: load (Init), analyze, select.                                  *)
(***************************************************************************)
Init ==
    /\ tree_data \in {<<t>> : t \in InputTrees}
    /\ pc = "loaded"
    /\ analysis = <<>>
    /\ optimal_parents = <<>>
    /\ min_children = 0
    /\ max_depth = 0
    /\ predicate_sets = <<>>
    /\ argv = <<"extract_parent_predicates.py", "hierarchy.html">>
    /\ html_file = [exists |-> TRUE, content |-> <<"V", "[", "T", "]">>,
                    root |-> tree_data[1]]
    /\ stdout = <<>>
    /\ report_file = "absent"
    /\ exit_code = "running"
    /\ exception = "none"
    /\ loop_i = 0
    /\ loop_j = 0
    /\ heap = <<>>
    /\ stack = <<>>

AnalyzeHierarchy ==
    /\ pc = "loaded"
    /\ tree_data # <<>>
    /\ analysis' = analyze_hierarchy(tree_data)
    /\ pc' = "analyzed"
    /\ UNCHANGED <<tree_data, optimal_parents, min_children, max_depth>>
    /\ UNCHANGED <<predicate_sets, mainVars>>
    /\ UNCHANGED <<loopVars, traversalVars>>

FindOptimalParents ==
    /\ pc = "analyzed"
    /\ \E minc \in 0..MaxMinChildren, maxd \in 0..MaxMaxDepth :
          /\ min_children' = minc
          /\ max_depth' = maxd
          /\ optimal_parents' = find_optimal_parents(analysis, minc, maxd)
    /\ pc' = "selected"
    /\ UNCHANGED <<tree_data, analysis>>
    /\ UNCHANGED <<predicate_sets, mainVars>>
    /\ UNCHANGED <<loopVars, traversalVars>>

Next == AnalyzeHierarchy \/ FindOptimalParents

Spec == Init /\ [][Next]_vars

(***************************************************************************)
(* create_predicate_sets(analysis): the computed strategy.  s[:k] is the   *)
(* first k elements of s, all of s when it has fewer.                      *)
(***************************************************************************)
Take(s, k) == SubSeq(s, 1, IF Len(s) < k THEN Len(s) ELSE k)

names_of(ps) == [i \in 1..Len(ps) |-> ps[i].name]

\* Variant: one more than the top 5.
comprehensive_set_top6(optimal) == names_of(Take(optimal, 6))

comprehensive_set(optimal) == names_of(Take(optimal, 5))

\* Variant: cuts the ranked list to 8 before filtering.
focused_set_slice_first(optimal) ==
    names_of(SelectSeq(Take(optimal, 8),
                       LAMBDA p : 20 <= p.total_children /\ p.total_children <= 50))

focused_set(optimal) ==
    LET focused_candidates ==
            SelectSeq(optimal,
                      LAMBDA p : 20 <= p.total_children /\ p.total_children <= 50)
    IN  names_of(Take(focused_candidates, 8))

minimal_set(optimal) ==
    LET minimal_candidates ==
            SelectSeq(optimal,
                      LAMBDA p : 5 <= p.total_children /\ p.total_children <= 20)
    IN  names_of(Take(minimal_candidates, 6))

\* Variant: keeps only the entries of depth at most 1.
high_level_set_depth1(optimal) ==
    LET high_level_candidates == SelectSeq(optimal, LAMBDA p : p.depth <= 1)
    IN  names_of(Take(high_level_candidates, 6))

high_level_set(optimal) ==
    LET high_level_candidates == SelectSeq(optimal, LAMBDA p : p.depth <= 2)
    IN  names_of(Take(high_level_candidates, 6))

\* Variant: ranks without the exclusion of related_to.
create_predicate_sets_with_root(an) ==
    LET optimal == sort_by_efficiency(<<>>,
                       SelectSeq(an, LAMBDA node : is_candidate_any_name(node, 10, 2)))
    IN  [comprehensive |-> comprehensive_set(optimal),
         focused |-> focused_set(optimal),
         minimal |-> minimal_set(optimal),
         high_level |-> high_level_set(optimal)]

create_predicate_sets(an) ==
    LET optimal == find_optimal_parents(an, 10, 2)
    IN  [comprehensive |-> comprehensive_set(optimal),
         focused |-> focused_set(optimal),
         minimal |-> minimal_set(optimal),
         high_level |-> high_level_set(optimal)]

(***************************************************************************)
(* Hierarchies large enough for the thresholds of create_predicate_sets:   *)
(* a root with up to MaxGroups children, each of one of five shapes.       *)
(***************************************************************************)
MaxGroups == 4

GroupNames ==
    << <<"g1", "g1a", "g1b", "g1x">>, <<"g2", "g2a", "g2b", "g2x">>,
       <<"g3", "g3a", "g3b", "g3x">>, <<"g4", "g4a", "g4b", "g4x">>,
       <<"g5", "g5a", "g5b", "g5x">>, <<"g6", "g6a", "g6b", "g6x">> >>

Leaves(n) == [i \in 1..n |-> Leaf("leaf")]

Shapes == {"two20", "one50", "ten", "nine", "deep10"}

Group(i, shape) ==
    LET nm == GroupNames[i]
    IN  CASE shape = "two20" ->
                [name |-> nm[1],
                 children |-> << [name |-> nm[2], children |-> Leaves(20)],
                                 [name |-> nm[3], children |-> Leaves(20)] >>]
          [] shape = "one50" ->
                [name |-> nm[1],
                 children |-> << [name |-> nm[2], children |-> Leaves(50)] >>]
          [] shape = "ten" -> [name |-> nm[1], children |-> Leaves(10)]
          [] shape = "nine" -> [name |-> nm[1], children |-> Leaves(9)]
          [] shape = "deep10" ->
                [name |-> nm[1],
                 children |-> << [name |-> nm[2],
                                  children |-> << [name |-> nm[4],
                                                   children |-> Leaves(10)] >>] >>]

LargeTrees ==
    {[name |-> rn, children |-> [i \in 1..g |-> Group(i, shapes[i])]] :
        rn \in {"related_to", "root"},
        g \in 0..MaxGroups,
        shapes \in [1..MaxGroups -> Shapes]}

(***************************************************************************)
(* The successful run of main() on a large hierarchy: analyze, select with *)
(* the default thresholds, build the sets.                                 *)
(***************************************************************************)
DefaultMinChildren == 5
DefaultMaxDepth == 3

InitSets ==
    /\ tree_data \in {<<t>> : t \in LargeTrees}
    /\ pc = "loaded"
    /\ analysis = <<>>
    /\ optimal_parents = <<>>
    /\ min_children = 0
    /\ max_depth = 0
    /\ predicate_sets = <<>>
    /\ argv = <<"extract_parent_predicates.py", "hierarchy.html">>
    /\ html_file = [exists |-> TRUE, content |-> <<"V", "[", "T", "]">>,
                    root |-> tree_data[1]]
    /\ stdout = <<>>
    /\ report_file = "absent"
    /\ exit_code = "running"
    /\ exception = "none"
    /\ loop_i = 0
    /\ loop_j = 0
    /\ heap = <<>>
    /\ stack = <<>>

FindOptimalParentsDefault ==
    /\ pc = "analyzed"
    /\ min_children' = DefaultMinChildren
    /\ max_depth' = DefaultMaxDepth
    /\ optimal_parents' =
          find_optimal_parents(analysis, DefaultMinChildren, DefaultMaxDepth)
    /\ pc' = "selected"
    /\ UNCHANGED <<tree_data, analysis, predicate_sets, mainVars>>
    /\ UNCHANGED <<loopVars, traversalVars>>

CreatePredicateSets ==
    /\ pc = "selected"
    /\ predicate_sets' = create_predicate_sets(analysis)
    /\ pc' = "sets"
    /\ UNCHANGED <<tree_data, analysis, optimal_parents, min_children, max_depth,
                   mainVars>>
    /\ UNCHANGED <<loopVars, traversalVars>>

NextSets == AnalyzeHierarchy \/ FindOptimalParentsDefault \/ CreatePredicateSets

SpecSets == InitSets /\ [][NextSets]_vars

(***************************************************************************)
(* load_hierarchy_from_html(html_file).  The file's text is a sequence of  *)
(* tokens: "V" is the text `var treeData = `, "[" and "]" are brackets,    *)
(* "T" is the JSON text of the root object (its own brackets balance, so   *)
(* the bracket count is the same before and after it; separators belong to *)
(* the tokens), "x" is any other text.  html_file.root is the object "T"   *)
(* denotes.  The result is [ok, value] or [ok, error].                     *)
(***************************************************************************)
MaxContent == 5

Tokens == {"V", "[", "]", "T", "x"}

\* content.find('var treeData = ['): the first position of the marker, 0
\* for Python's -1.
find_marker(content) ==
    LET hits == {i \in 1..Len(content) - 1 :
                    content[i] = "V" /\ content[i + 1] = "["}
    IN  IF hits = {} THEN 0
        ELSE CHOOSE i \in hits : \A j \in hits : i <= j

\* The for loop of lines 24-33: the position of the bracket that brings
\* bracket_count back to 0, or 0 when the loop runs to the end.
RECURSIVE find_end(_, _, _)
find_end(content, i, bracket_count) ==
    IF i > Len(content) THEN 0
    ELSE IF content[i] = "[" THEN find_end(content, i + 1, bracket_count + 1)
    ELSE IF content[i] = "]"
         THEN IF bracket_count - 1 = 0 THEN i
              ELSE find_end(content, i + 1, bracket_count - 1)
    ELSE find_end(content, i + 1, bracket_count)

\* json.loads of a bracketed token string: the list of its top-level
\* elements; a nested list is a value without keys.
RECURSIVE json_elements(_, _, _, _)
json_elements(toks, i, level, root_object) ==
    IF i >= Len(toks) THEN <<>>
    ELSE LET here == IF level = 1 /\ toks[i] = "T" THEN <<root_object>>
                     ELSE IF level = 1 /\ toks[i] = "[" THEN << <<>> >>
                     ELSE <<>>
             next == IF toks[i] = "[" THEN level + 1
                     ELSE IF toks[i] = "]" THEN level - 1
                     ELSE level
         IN  here \o json_elements(toks, i + 1, next, root_object)

json_loads(toks, root_object) ==
    IF \E i \in 1..Len(toks) : toks[i] \in {"x", "V"}
    THEN [ok |-> FALSE, error |-> "JSONDecodeError"]
    ELSE [ok |-> TRUE, value |-> json_elements(toks, 2, 1, root_object)]

load_hierarchy_from_html(file) ==
    IF ~file.exists THEN [ok |-> FALSE, error |-> "FileNotFoundError"]
    ELSE LET content == file.content
             start == find_marker(content)
             start_pos == start + 1
             end_pos == find_end(content, start_pos, 0)
         IN  IF start = 0
             THEN [ok |-> FALSE, error |-> "Could not find treeData in HTML file"]
             ELSE IF end_pos = 0
             THEN [ok |-> FALSE, error |-> "Could not find end of treeData array"]
             ELSE json_loads(SubSeq(content, start_pos, end_pos), file.root)

(***************************************************************************)
(* main(): the argument check, then the try block, whose except clause     *)
(* prints the error and exits with status 1.  stdout holds the usage, the  *)
(* error and the final message; the progress and result listings are left  *)
(* out.                                                                    *)
(***************************************************************************)
RootObjects == {WorkedExample, MalformedExample}

RECURSIVE SeqsUpTo(_, _)
SeqsUpTo(S, n) ==
    IF n = 0 THEN {<<>>}
    ELSE LET shorter == SeqsUpTo(S, n - 1)
         IN  shorter \cup {Append(q, x) : q \in shorter, x \in S}

CommandLines ==
    {<<"extract_parent_predicates.py">>,
     <<"extract_parent_predicates.py", "hierarchy.html">>,
     <<"extract_parent_predicates.py", "hierarchy.html", "extra">>}

InitMain ==
    /\ argv \in CommandLines
    /\ html_file \in [exists : BOOLEAN, content : SeqsUpTo(Tokens, MaxContent),
                      root : RootObjects]
    /\ pc = "start"
    /\ tree_data = <<>>
    /\ analysis = <<>>
    /\ optimal_parents = <<>>
    /\ min_children = 0
    /\ max_depth = 0
    /\ predicate_sets = <<>>
    /\ stdout = <<>>
    /\ report_file = "absent"
    /\ exit_code = "running"
    /\ exception = "none"
    /\ loop_i = 0
    /\ loop_j = 0
    /\ heap = <<>>
    /\ stack = <<>>

Message(msg, detail) == [msg |-> msg, detail |-> detail]

analysisVars == <<tree_data, analysis, optimal_parents, min_children, max_depth,
                  predicate_sets>>

\* Variant: only a missing argument is refused.
MainCheckArgsAtLeastOne ==
    /\ pc = "start"
    /\ IF Len(argv) < 2
       THEN /\ stdout' = Append(stdout, Message("Usage", ""))
            /\ exit_code' = "exit 1"
            /\ pc' = "exited"
       ELSE /\ pc' = "try"
            /\ UNCHANGED <<stdout, exit_code>>
    /\ UNCHANGED <<analysisVars, argv, html_file, report_file, exception>>
    /\ UNCHANGED <<loopVars, traversalVars>>

MainCheckArgs ==
    /\ pc = "start"
    /\ IF Len(argv) # 2
       THEN /\ stdout' = Append(stdout, Message("Usage", ""))
            /\ exit_code' = "exit 1"
            /\ pc' = "exited"
       ELSE /\ pc' = "try"
            /\ UNCHANGED <<stdout, exit_code>>
    /\ UNCHANGED <<analysisVars, argv, html_file, report_file, exception>>
    /\ UNCHANGED <<loopVars, traversalVars>>

MainLoad ==
    /\ pc = "try"
    /\ LET loaded == load_hierarchy_from_html(html_file)
       IN  IF loaded.ok
           THEN /\ tree_data' = loaded.value
                /\ pc' = "loaded"
                /\ UNCHANGED exception
           ELSE /\ exception' = loaded.error
                /\ pc' = "except"
                /\ UNCHANGED tree_data
    /\ UNCHANGED <<analysis, optimal_parents, min_children, max_depth,
                   predicate_sets, argv, html_file, stdout, report_file,
                   exit_code>>
    /\ UNCHANGED <<loopVars, traversalVars>>

\* tree_data[0] of an empty list raises IndexError.
MainAnalyzeRaises ==
    /\ pc = "loaded"
    /\ tree_data = <<>>
    /\ exception' = "IndexError"
    /\ pc' = "except"
    /\ UNCHANGED <<analysisVars, argv, html_file, stdout, report_file, exit_code>>
    /\ UNCHANGED <<loopVars, traversalVars>>

\* with open(output_file, 'w'): json.dump(...).  Opening or writing may
\* fail; a failed write leaves a partial file.
MainWriteReport ==
    /\ pc = "sets"
    /\ \E outcome \in {"written", "open fails", "write fails"} :
          IF outcome = "written"
          THEN /\ report_file' = "written"
               /\ stdout' = Append(stdout, Message("Detailed analysis saved to",
                                                   "predicate_hierarchy_analysis.json"))
               /\ exit_code' = "exit 0"
               /\ pc' = "exited"
               /\ UNCHANGED exception
          ELSE /\ report_file' = (IF outcome = "open fails" THEN report_file
                                  ELSE "partial")
               /\ exception' = "OSError"
               /\ pc' = "except"
               /\ UNCHANGED <<stdout, exit_code>>
    /\ UNCHANGED <<analysisVars, argv, html_file>>
    /\ UNCHANGED <<loopVars, traversalVars>>

\* Variant: the except clause prints the error and falls off the end.
MainExceptNoExit ==
    /\ pc = "except"
    /\ stdout' = Append(stdout, Message("Error", exception))
    /\ exit_code' = "exit 0"
    /\ pc' = "exited"
    /\ UNCHANGED <<analysisVars, argv, html_file, report_file, exception>>
    /\ UNCHANGED <<loopVars, traversalVars>>

MainExcept ==
    /\ pc = "except"
    /\ stdout' = Append(stdout, Message("Error", exception))
    /\ exit_code' = "exit 1"
    /\ pc' = "exited"
    /\ UNCHANGED <<analysisVars, argv, html_file, report_file, exception>>
    /\ UNCHANGED <<loopVars, traversalVars>>

NextMain ==
    \/ MainCheckArgs
    \/ MainLoad
    \/ AnalyzeHierarchy
    \/ MainAnalyzeRaises
    \/ FindOptimalParentsDefault
    \/ CreatePredicateSets
    \/ MainWriteReport
    \/ MainExcept

SpecMain == InitMain /\ [][NextMain]_vars

(***************************************************************************)
(* analyze_biolink_hierarchy.py: the curated strategy.  A dict is the      *)
(* sequence of its items in insertion order.                               *)
(***************************************************************************)
Entry(pred, children, coverage, recommendation) ==
    [pred |-> pred, children |-> children, coverage |-> coverage,
     recommendation |-> recommendation]

analyze_biolink_hierarchy ==
    << Entry("related_to",
             <<"related_to_at_concept_level", "related_to_at_instance_level">>,
             "universal", "avoid - too broad"),
       Entry("related_to_at_instance_level",
             <<"affected_by", "affects", "associated_with", "coexists_with",
               "interacts_with", "participates_in", "similar_to", "overlaps">>,
             "very_high", "excellent for comprehensive queries"),
       Entry("related_to_at_concept_level",
             <<"subclass_of", "superclass_of", "exact_match", "close_match",
               "broad_match", "narrow_match">>,
             "high", "good for hierarchical queries"),
       Entry("affected_by",
             <<"regulated_by", "disrupted_by", "condition_ameliorated_by",
               "condition_exacerbated_by", "response_affected_by">>,
             "moderate", "good for regulatory relationships"),
       Entry("affects",
             <<"regulates", "disrupts", "ameliorates_condition",
               "exacerbates_condition", "affects_response_to", "has_side_effect">>,
             "moderate", "good for causal relationships"),
       Entry("associated_with",
             <<"correlated_with", "genetically_associated_with", "biomarker_for",
               "coexpressed_with">>,
             "moderate", "good for association queries"),
       Entry("interacts_with",
             <<"physically_interacts_with", "genetically_interacts_with",
               "directly_physically_interacts_with", "binds">>,
             "moderate", "good for interaction queries"),
       Entry("participates_in",
             <<"catalyzes", "enables", "actively_involved_in", "has_input",
               "has_output", "is_substrate_of">>,
             "moderate", "good for pathway/process queries"),
       Entry("coexists_with",
             <<"colocalizes_with", "in_complex_with", "in_pathway_with",
               "in_cell_population_with">>,
             "moderate", "good for co-location queries"),
       Entry("similar_to",
             <<"chemically_similar_to", "homologous_to", "orthologous_to",
               "paralogous_to">>,
             "moderate", "good for similarity queries"),
       Entry("overlaps",
             <<"part_of", "has_part", "has_food_component", "has_active_ingredient">>,
             "moderate", "good for structural relationships") >>

\* Variant: the comprehensive list starts with the root predicate.
curated_sets_with_root ==
    [comprehensive |-> <<"related_to", "related_to_at_instance_level",
                         "related_to_at_concept_level">>,
     focused |-> <<"affected_by", "affects", "associated_with", "interacts_with",
                   "participates_in">>,
     minimal |-> <<"regulates", "associated_with", "interacts_with",
                   "participates_in", "similar_to">>,
     causal |-> <<"affects", "affected_by", "causes", "contributes_to">>,
     associational |-> <<"associated_with", "correlated_with", "coexpressed_with",
                         "biomarker_for">>,
     interaction |-> <<"interacts_with", "physically_interacts_with", "binds",
                       "coexists_with">>,
     hierarchical |-> <<"subclass_of", "superclass_of", "part_of", "has_part">>]

\* create_predicate_sets() of analyze_biolink_hierarchy.py.
curated_create_predicate_sets ==
    [comprehensive |-> <<"related_to_at_instance_level",
                         "related_to_at_concept_level">>,
     focused |-> <<"affected_by", "affects", "associated_with", "interacts_with",
                   "participates_in">>,
     minimal |-> <<"regulates", "associated_with", "interacts_with",
                   "participates_in", "similar_to">>,
     causal |-> <<"affects", "affected_by", "causes", "contributes_to">>,
     associational |-> <<"associated_with", "correlated_with", "coexpressed_with",
                         "biomarker_for">>,
     interaction |-> <<"interacts_with", "physically_interacts_with", "binds",
                       "coexists_with">>,
     hierarchical |-> <<"subclass_of", "superclass_of", "part_of", "has_part">>]

\* The keys of the dict create_predicate_sets() returns, in insertion order.
CuratedSetNames ==
    <<"comprehensive", "focused", "minimal", "causal", "associational",
      "interaction", "hierarchical">>

(***************************************************************************)
(* main() of analyze_biolink_hierarchy.py, one step per loop iteration:    *)
(* the table rows, the set listing, the JavaScript listing, the save.  The *)
(* script takes no arguments and ignores any it is given.  It has no try   *)
(* block: a failed save ends the run with a traceback and status 1.        *)
(***************************************************************************)
CuratedCommandLines ==
    {<<"analyze_biolink_hierarchy.py">>,
     <<"analyze_biolink_hierarchy.py", "hierarchy.html">>,
     <<"analyze_biolink_hierarchy.py", "hierarchy.html", "extra">>}

InitCurated ==
    /\ argv \in CuratedCommandLines
    /\ pc = "c_start"
    /\ tree_data = <<>>
    /\ analysis = <<>>
    /\ optimal_parents = <<>>
    /\ min_children = 0
    /\ max_depth = 0
    /\ predicate_sets = <<>>
    /\ html_file = [exists |-> FALSE, content |-> <<>>, root |-> <<>>]
    /\ stdout = <<>>
    /\ report_file = "absent"
    /\ exit_code = "running"
    /\ exception = "none"
    /\ loop_i = 0
    /\ loop_j = 0
    /\ heap = <<>>
    /\ stack = <<>>

curatedFrame == <<tree_data, optimal_parents, min_children, max_depth, argv,
                  html_file, traversalVars>>

CuratedAnalyze ==
    /\ pc = "c_start"
    /\ analysis' = analyze_biolink_hierarchy
    /\ stdout' = Append(stdout, Message("Analyzed key parent predicates", ""))
    /\ loop_i' = 1
    /\ pc' = "c_rows"
    /\ UNCHANGED <<curatedFrame, predicate_sets, report_file, exit_code,
                   exception, loop_j>>

\* for pred, data in analysis.items(): skip the root, print the others.
CuratedPrintRow ==
    /\ pc = "c_rows"
    /\ loop_i <= Len(analysis)
    /\ stdout' = (IF analysis[loop_i].coverage # "universal"
                  THEN Append(stdout, Message("row", analysis[loop_i].pred))
                  ELSE stdout)
    /\ loop_i' = loop_i + 1
    /\ UNCHANGED <<curatedFrame, analysis, predicate_sets, report_file, exit_code,
                   exception, loop_j, pc>>

CuratedCreateSets ==
    /\ pc = "c_rows"
    /\ loop_i > Len(analysis)
    /\ predicate_sets' = curated_create_predicate_sets
    /\ loop_i' = 1
    /\ loop_j' = 0
    /\ pc' = "c_sets"
    /\ UNCHANGED <<curatedFrame, analysis, stdout, report_file, exit_code,
                   exception>>

\* The two listings: a header per set, then a line per predicate; the
\* JavaScript listing closes each set with a footer line.
CuratedPrintHeader ==
    /\ pc \in {"c_sets", "c_js"}
    /\ loop_i <= Len(CuratedSetNames)
    /\ loop_j = 0
    /\ stdout' = Append(stdout, Message(IF pc = "c_sets" THEN "SET" ELSE "js set",
                                        CuratedSetNames[loop_i]))
    /\ loop_j' = 1
    /\ UNCHANGED <<curatedFrame, analysis, predicate_sets, report_file, exit_code,
                   exception, loop_i, pc>>

CuratedPrintPredicate ==
    /\ pc \in {"c_sets", "c_js"}
    /\ loop_i <= Len(CuratedSetNames)
    /\ loop_j >= 1
    /\ loop_j <= Len(predicate_sets[CuratedSetNames[loop_i]])
    /\ stdout' = Append(stdout, Message("biolink:",
                                        predicate_sets[CuratedSetNames[loop_i]][loop_j]))
    /\ loop_j' = loop_j + 1
    /\ UNCHANGED <<curatedFrame, analysis, predicate_sets, report_file, exit_code,
                   exception, loop_i, pc>>

CuratedNextSet ==
    /\ pc \in {"c_sets", "c_js"}
    /\ loop_i <= Len(CuratedSetNames)
    /\ loop_j > Len(predicate_sets[CuratedSetNames[loop_i]])
    /\ stdout' = (IF pc = "c_js" THEN Append(stdout, Message("],", "")) ELSE stdout)
    /\ loop_i' = loop_i + 1
    /\ loop_j' = 0
    /\ UNCHANGED <<curatedFrame, analysis, predicate_sets, report_file, exit_code,
                   exception, pc>>

CuratedStartJavaScript ==
    /\ pc = "c_sets"
    /\ loop_i > Len(CuratedSetNames)
    /\ stdout' = Append(stdout, Message("const BIOLINK_PREDICATE_SETS = {", ""))
    /\ loop_i' = 1
    /\ loop_j' = 0
    /\ pc' = "c_js"
    /\ UNCHANGED <<curatedFrame, analysis, predicate_sets, report_file, exit_code,
                   exception>>

CuratedSave ==
    /\ pc = "c_js"
    /\ loop_i > Len(CuratedSetNames)
    /\ \E outcome \in {"written", "open fails", "write fails"} :
          IF outcome = "written"
          THEN /\ report_file' = "written"
               /\ stdout' = Append(stdout, Message("Results saved to",
                                                   "biolink_predicate_sets.json"))
               /\ exit_code' = "exit 0"
               /\ UNCHANGED exception
          ELSE /\ report_file' = (IF outcome = "open fails" THEN report_file
                                  ELSE "partial")
               /\ exception' = "OSError"
               /\ exit_code' = "exit 1"
               /\ UNCHANGED stdout
    /\ pc' = "exited"
    /\ UNCHANGED <<curatedFrame, analysis, predicate_sets, loopVars>>

NextCurated ==
    \/ CuratedAnalyze
    \/ CuratedPrintRow
    \/ CuratedCreateSets
    \/ CuratedPrintHeader
    \/ CuratedPrintPredicate
    \/ CuratedNextSet
    \/ CuratedStartJavaScript
    \/ CuratedSave

SpecCurated == InitCurated /\ [][NextCurated]_vars

(***************************************************************************)
(* The traversal as the interpreter runs it: one frame per call of         *)
(* analyze_hierarchy, extract_all_predicates, analyze_node and             *)
(* count_children_recursive.  The nodes are objects of a heap and a        *)
(* children list holds references, so a list may refer to an ancestor or   *)
(* to the same object twice.  None of the functions compares its depth     *)
(* argument with anything; the only limit is the interpreter's, which      *)
(* raises RecursionError when a call would exceed RecursionLimit frames.   *)
(***************************************************************************)
HeapNodes == 2
RecursionLimit == 3

NodeIds == 1..HeapNodes

NodeNames == <<"related_to", "p", "q">>

NameOfNode(k) == IF k <= Len(NodeNames) THEN NodeNames[k] ELSE "r"

ChildLists ==
    {<<>>} \cup {<<a>> : a \in NodeIds} \cup {<<a, b>> : a, b \in NodeIds}

NodeShapes ==
    {[named |-> n, has_children |-> h, kids |-> c] :
        n \in BOOLEAN, h \in BOOLEAN, c \in ChildLists}

HeapOf(shape) ==
    [k \in NodeIds |->
        MkNode(shape[k].named, NameOfNode(k), shape[k].has_children, shape[k].kids)]

Kids(f) ==
    IF "children" \in DOMAIN heap[f.node] THEN heap[f.node].children ELSE <<>>

\* The frame of a call at the point where the function's loop begins.
\* analyze_hierarchy and analyze_node make one call before their loop
\* (i = 0); count_children_recursive has set total_children to the length
\* of the children list and extract_all_predicates has appended the name.
Enter(fn, node, depth) ==
    [fn |-> fn, node |-> node, depth |-> depth,
     i |-> IF fn \in {"analyze_hierarchy", "analyze_node"} THEN 0 ELSE 1,
     total |-> IF fn = "count_children_recursive" /\ "children" \in DOMAIN heap[node]
               THEN Len(heap[node].children) ELSE 0,
     predicates |-> IF fn = "extract_all_predicates" /\ "name" \in DOMAIN heap[node]
                    THEN <<heap[node].name>> ELSE <<>>]

\* Whether the frame has a call left to make.
Calls(f) ==
    CASE f.fn = "analyze_hierarchy" -> f.i <= 1
      [] f.fn = "analyze_node" ->
            "name" \in DOMAIN heap[f.node] /\ f.i <= Len(Kids(f))
      [] OTHER -> f.i <= Len(Kids(f))

\* The call the frame makes next.
Callee(f) ==
    CASE f.fn = "analyze_hierarchy" ->
            IF f.i = 0 THEN Enter("extract_all_predicates", 1, 0)
            ELSE Enter("analyze_node", 1, 0)
      [] f.fn = "analyze_node" ->
            IF f.i = 0 THEN Enter("count_children_recursive", f.node, 0)
            ELSE Enter("analyze_node", Kids(f)[f.i], f.depth + 1)
      [] OTHER -> Enter(f.fn, Kids(f)[f.i], f.depth + 1)

\* The caller's frame after the callee has returned.
Resume(caller, callee) ==
    CASE callee.fn = "extract_all_predicates" ->
            [caller EXCEPT !.predicates = IF caller.fn = "analyze_hierarchy"
                                          THEN callee.predicates
                                          ELSE @ \o callee.predicates,
                           !.i = @ + 1]
      [] callee.fn = "count_children_recursive" ->
            [caller EXCEPT !.total = IF caller.fn = "analyze_node"
                                     THEN callee.total
                                     ELSE @ + callee.total,
                           !.i = @ + 1]
      [] OTHER -> [caller EXCEPT !.i = @ + 1]

\* The record analyze_node appends once count_children_recursive returned.
EntryOfFrame(caller, callee) ==
    [name |-> heap[caller.node].name,
     depth |-> caller.depth,
     direct_children |-> Len(Kids(callee)),
     total_children |-> callee.total,
     coverage_ratio |-> coverage_ratio_of(callee.total, stack[1].predicates),
     efficiency |-> efficiency_of(callee.total, caller.depth),
     has_children |-> "children" \in DOMAIN heap[caller.node]]

traversalFrame == <<tree_data, optimal_parents, min_children, max_depth,
                    predicate_sets, argv, html_file, stdout, report_file,
                    exit_code, loopVars>>

InitTraversal ==
    /\ \E shape \in [NodeIds -> NodeShapes] :
          /\ \A k \in NodeIds : ~shape[k].has_children => shape[k].kids = <<>>
          /\ heap = HeapOf(shape)
    /\ stack = <<Enter("analyze_hierarchy", 1, 0)>>
    /\ pc = "traversing"
    /\ tree_data = <<>>
    /\ analysis = <<>>
    /\ optimal_parents = <<>>
    /\ min_children = 0
    /\ max_depth = 0
    /\ predicate_sets = <<>>
    /\ argv = <<>>
    /\ html_file = [exists |-> FALSE, content |-> <<>>, root |-> <<>>]
    /\ stdout = <<>>
    /\ report_file = "absent"
    /\ exit_code = "running"
    /\ exception = "none"
    /\ loop_i = 0
    /\ loop_j = 0

TraverseCall ==
    /\ pc = "traversing"
    /\ Calls(stack[Len(stack)])
    /\ Len(stack) < RecursionLimit
    /\ stack' = Append(stack, Callee(stack[Len(stack)]))
    /\ UNCHANGED <<traversalFrame, heap, pc, analysis, exception>>

\* The interpreter refuses the call; the exception unwinds every frame and
\* the list being built is lost with them.
TraverseRecursionError ==
    /\ pc = "traversing"
    /\ Calls(stack[Len(stack)])
    /\ Len(stack) >= RecursionLimit
    /\ stack' = <<>>
    /\ analysis' = <<>>
    /\ exception' = "RecursionError"
    /\ pc' = "recursion_error"
    /\ UNCHANGED <<traversalFrame, heap>>

TraverseReturn ==
    /\ pc = "traversing"
    /\ ~Calls(stack[Len(stack)])
    /\ Len(stack) > 1
    /\ LET callee == stack[Len(stack)]
           caller == stack[Len(stack) - 1]
       IN  /\ stack' = Append(SubSeq(stack, 1, Len(stack) - 2),
                              Resume(caller, callee))
           /\ analysis' = (IF /\ callee.fn = "count_children_recursive"
                              /\ caller.fn = "analyze_node"
                           THEN Append(analysis, EntryOfFrame(caller, callee))
                           ELSE analysis)
    /\ UNCHANGED <<traversalFrame, heap, pc, exception>>

\* analyze_hierarchy returns the list.
TraverseFinish ==
    /\ pc = "traversing"
    /\ ~Calls(stack[Len(stack)])
    /\ Len(stack) = 1
    /\ stack' = <<>>
    /\ pc' = "returned"
    /\ UNCHANGED <<traversalFrame, heap, analysis, exception>>

NextTraversal ==
    \/ TraverseCall
    \/ TraverseRecursionError
    \/ TraverseReturn
    \/ TraverseFinish

SpecTraversal == InitTraversal /\ [][NextTraversal]_vars

(***************************************************************************)
(* Reference view of a tree, independent of the traversals above: a node   *)
(* is addressed by its path, the sequence of child positions leading to    *)
(* it from the root.                                                       *)
(***************************************************************************)
Root == tree_data[1]

ChildrenOf(node) == IF "children" \in DOMAIN node THEN node.children ELSE <<>>

RECURSIVE Paths(_)
Paths(node) ==
    {<<>>} \cup UNION {{<<i>> \o p : p \in Paths(ChildrenOf(node)[i])} :
                          i \in 1..Len(ChildrenOf(node))}

RECURSIVE NodeAt(_, _)
NodeAt(node, path) ==
    IF path = <<>> THEN node ELSE NodeAt(ChildrenOf(node)[Head(path)], Tail(path))

NumNodes(node) == Cardinality(Paths(node))

HasName(node) == "name" \in DOMAIN node

IsPrefix(p, q) == Len(p) <= Len(q) /\ SubSeq(q, 1, Len(p)) = p

\* A node gets an entry exactly when it and all its ancestors have a name.
Emitted(path) ==
    \A k \in 0..Len(path) : HasName(NodeAt(Root, SubSeq(path, 1, k)))

EmittedPaths == {p \in Paths(Root) : Emitted(p)}

AllNamed == \A p \in Paths(Root) : HasName(NodeAt(Root, p))

\* Pre-order: an ancestor before its descendants, an earlier sibling's
\* subtree before a later sibling's.
PreOrderBefore(p, q) ==
    \/ (p # q /\ IsPrefix(p, q))
    \/ \E k \in 1..Len(p) :
          /\ k <= Len(q)
          /\ SubSeq(p, 1, k - 1) = SubSeq(q, 1, k - 1)
          /\ p[k] < q[k]

\* Position in `analysis` of the entry of an emitted node.
EntryIndex(path) == 1 + Cardinality({q \in EmittedPaths : PreOrderBefore(q, path)})

NamesOf(entries) == [i \in 1..Len(entries) |-> entries[i].name]

Analyzed == pc \in {"analyzed", "selected"}

Selected == pc = "selected"


(***************************************************************************)
(* Properties.                                                             *)
(***************************************************************************)
EntriesOf(entries) == {entries[i] : i \in 1..Len(entries)}

NamedPaths == {p \in Paths(Root) : HasName(NodeAt(Root, p))}

\* C1 (as stated): every entry's efficiency is total_children / depth when
\* depth > 0, and total_children when depth = 0.
C1_EfficiencyByDepth ==
    Analyzed =>
        \A e \in EntriesOf(analysis) :
            IF e.depth > 0
            THEN e.efficiency.num * e.depth = e.total_children * e.efficiency.den
            ELSE e.efficiency = Int2Num(e.total_children)

\* C1 (amended): every entry's efficiency is total_children / (depth + 1)
\* when depth > 0, and total_children when depth = 0; the depth-1 node with
\* 5 descendants of the worked example has efficiency 5/2.
C1_EfficiencyByDepthPlusOne ==
    Analyzed =>
        /\ \A e \in EntriesOf(analysis) :
              /\ e.efficiency.den > 0
              /\ IF e.depth > 0
                 THEN e.efficiency.num * (e.depth + 1)
                          = e.total_children * e.efficiency.den
                 ELSE e.efficiency = Int2Num(e.total_children)
        /\ \A e \in EntriesOf(analysis) :
              (e.depth = 1 /\ e.total_children = 5)
                  => e.efficiency = [num |-> 5, den |-> 2]

C1_Witness ==
    /\ Analyzed
    /\ \E e \in EntriesOf(analysis) : e.depth = 1 /\ e.total_children = 5
    /\ \E e \in EntriesOf(analysis) : e.depth = 0 /\ e.total_children > 0

\* C2: every entry's coverage_ratio lies in [0, 1], also for trees that
\* contain nodes without a name.
C2_CoverageRatioInUnitInterval ==
    Analyzed =>
        \A e \in EntriesOf(analysis) :
            /\ 0 <= e.coverage_ratio.num
            /\ e.coverage_ratio.num <= e.coverage_ratio.den

\* C3 (as stated): for every tree the direct_children of all entries sum to
\* the number of nodes minus 1.
C3_DirectChildrenSum ==
    Analyzed =>
        SumSeq([i \in 1..Len(analysis) |-> analysis[i].direct_children])
            = NumNodes(Root) - 1

\* C3 (amended): for every tree in which every node has a name the
\* direct_children of all entries sum to the number of nodes minus 1; in
\* general they sum to the number of nodes whose parent has an entry.
C3_DirectChildrenSumNamed ==
    Analyzed =>
        LET sum == SumSeq([i \in 1..Len(analysis) |-> analysis[i].direct_children])
        IN  /\ AllNamed => sum = NumNodes(Root) - 1
            /\ sum = Cardinality({p \in Paths(Root) :
                                     /\ p # <<>>
                                     /\ Emitted(SubSeq(p, 1, Len(p) - 1))})

C3_Witness ==
    /\ Analyzed
    /\ AllNamed
    /\ NumNodes(Root) >= 4
    /\ \E p \in Paths(Root) : Len(p) = 2

\* C4: for every node, the total_children count_children_recursive returns
\* is direct_children plus the children's total_children, and is the number
\* of strict descendants of the node; the entry of the node carries it.
C4_TotalChildren ==
    Analyzed =>
        \A p \in Paths(Root) :
            LET node == NodeAt(Root, p)
                kids == ChildrenOf(node)
                counts == count_children_recursive(node, 0)
            IN  /\ counts[2] = Len(kids)
                /\ counts[1] = counts[2]
                      + SumSeq([i \in 1..Len(kids) |->
                                   count_children_recursive(kids[i], 0)[1]])
                /\ counts[1] = NumNodes(node) - 1
                /\ Emitted(p) =>
                      /\ EntryIndex(p) \in 1..Len(analysis)
                      /\ analysis[EntryIndex(p)].total_children = NumNodes(node) - 1
                      /\ analysis[EntryIndex(p)].direct_children = Len(kids)

C4_Witness ==
    /\ Analyzed
    /\ \E e \in EntriesOf(analysis) :
          e.direct_children > 0 /\ e.total_children > e.direct_children

Qualifies(e) ==
    /\ e.has_children = TRUE
    /\ e.total_children >= min_children
    /\ e.depth <= max_depth
    /\ e.name # "related_to"

Count(entries, v) == Cardinality({i \in 1..Len(entries) : entries[i] = v})

\* C6: whatever the thresholds, no entry named related_to is in the list
\* find_optimal_parents returns.
C6_RelatedToExcluded ==
    Selected => \A e \in EntriesOf(optimal_parents) : e.name # "related_to"

C6_Witness ==
    /\ Selected
    /\ optimal_parents # <<>>
    /\ \E e \in EntriesOf(analysis) :
          /\ e.name = "related_to"
          /\ e.has_children
          /\ e.total_children >= min_children
          /\ e.depth <= max_depth

\* C7: on the worked example with min_children = 1 and max_depth = 3,
\* find_optimal_parents returns exactly [B].
C7_WorkedExampleYieldsB ==
    (Selected /\ Root = WorkedExample /\ min_children = 1 /\ max_depth = 3)
        => NamesOf(optimal_parents) = <<"B">>

\* C8: the result is in non-increasing order of efficiency, and entries of
\* equal efficiency keep the relative order they have in the analysis list.
C8_SortedDescendingStable ==
    Selected =>
        /\ \A i, j \in 1..Len(optimal_parents) :
              i < j => NumLeq(optimal_parents[j].efficiency,
                              optimal_parents[i].efficiency)
        /\ \A e \in EntriesOf(optimal_parents) :
              SelectSeq(optimal_parents, LAMBDA x : x.efficiency = e.efficiency)
                  = SelectSeq(analysis,
                              LAMBDA x : Qualifies(x) /\ x.efficiency = e.efficiency)

C8_Witness ==
    /\ Selected
    /\ \E i, j \in 1..Len(optimal_parents) :
          /\ i < j
          /\ optimal_parents[i].efficiency = optimal_parents[j].efficiency
          /\ optimal_parents[i] # optimal_parents[j]
    /\ \E i, j \in 1..Len(optimal_parents) :
          NumLess(optimal_parents[j].efficiency, optimal_parents[i].efficiency)

\* C9: the result holds exactly the entries that satisfy has_children,
\* total_children >= min_children, depth <= max_depth and name # related_to,
\* each as many times as the analysis list holds it.
C9_ExactlyTheQualifying ==
    Selected =>
        /\ Len(optimal_parents)
              = Cardinality({i \in 1..Len(analysis) : Qualifies(analysis[i])})
        /\ \A e \in EntriesOf(analysis) \cup EntriesOf(optimal_parents) :
              Count(optimal_parents, e)
                  = IF Qualifies(e) THEN Count(analysis, e) ELSE 0

C9_Witness ==
    /\ Selected
    /\ \E e \in EntriesOf(optimal_parents) : e.total_children = min_children
    /\ \E e \in EntriesOf(analysis) : ~e.has_children
    /\ \E e \in EntriesOf(analysis) : e.has_children /\ e.total_children < min_children
    /\ \E e \in EntriesOf(analysis) : e.has_children /\ e.depth > max_depth

\* C10: a node without a name and all its descendants get no entry; every
\* node whose ancestors and itself have a name gets one, in pre-order; the
\* malformed example yields the names A, C.
C10_NamelessSubtreeDropped ==
    Analyzed =>
        /\ Len(analysis) = Cardinality(EmittedPaths)
        /\ \A p \in EmittedPaths :
              /\ EntryIndex(p) \in 1..Len(analysis)
              /\ analysis[EntryIndex(p)].name = NodeAt(Root, p).name
              /\ analysis[EntryIndex(p)].depth = Len(p)
        /\ Root = MalformedExample => NamesOf(analysis) = <<"A", "C">>

C10_Witness ==
    /\ Analyzed
    /\ Root = MalformedExample
    /\ \E p \in Paths(Root) :
          /\ ~HasName(NodeAt(Root, p))
          /\ \E q \in NamedPaths : p # q /\ IsPrefix(p, q)
          /\ \E q \in EmittedPaths : PreOrderBefore(p, q)

\* The nodes below path p that get an entry themselves.
EmittedBelow(p) == {q \in EmittedPaths : q # p /\ IsPrefix(p, q)}

Parent(p) == SubSeq(p, 1, Len(p) - 1)

\* C11: when a nameless node is dropped, the denominator of coverage_ratio
\* is a predicate count without the dropped subtree, that is the number of
\* nodes that get an entry; for the malformed example it counts A and C only.
C11_DenominatorExcludesDropped ==
    (Analyzed /\ HasName(Root)) =>
        /\ Len(extract_all_predicates(Root, 0)) = Cardinality(EmittedPaths)
        /\ \A p \in EmittedPaths :
              analysis[EntryIndex(p)].coverage_ratio.num * Cardinality(EmittedPaths)
                  = analysis[EntryIndex(p)].total_children
                        * analysis[EntryIndex(p)].coverage_ratio.den

\* C12: when a nameless node is dropped, total_children and direct_children
\* of the surviving entries count neither it nor anything beneath it.
C12_MetricsExcludeDropped ==
    Analyzed =>
        \A p \in EmittedPaths :
            /\ analysis[EntryIndex(p)].total_children
                  = Cardinality(EmittedBelow(p))
            /\ analysis[EntryIndex(p)].direct_children
                  = Cardinality({q \in EmittedBelow(p) : Len(q) = Len(p) + 1})

\* C13: for a tree in which every node has a name, the output has one entry
\* per node, in pre-order, with depth 0 for the root and the parent's depth
\* plus 1 for every other node.
C13_OneEntryPerNodePreOrder ==
    (Analyzed /\ AllNamed) =>
        /\ Len(analysis) = NumNodes(Root)
        /\ \A p \in Paths(Root) :
              LET e == analysis[EntryIndex(p)]
              IN  /\ e.name = NodeAt(Root, p).name
                  /\ e.direct_children = Len(ChildrenOf(NodeAt(Root, p)))
                  /\ IF p = <<>> THEN EntryIndex(p) = 1 /\ e.depth = 0
                     ELSE /\ EntryIndex(Parent(p)) < EntryIndex(p)
                          /\ e.depth = analysis[EntryIndex(Parent(p))].depth + 1
        /\ \A p, q \in Paths(Root) :
              (Len(p) > 0 /\ Len(q) = Len(p) /\ Parent(p) = Parent(q)
                   /\ p[Len(p)] < q[Len(q)])
                  => \A r \in Paths(NodeAt(Root, p)) :
                        EntryIndex(p \o r) < EntryIndex(q)

C13_Witness ==
    /\ Analyzed
    /\ AllNamed
    /\ Root = WorkedExample
    /\ NamesOf(analysis) = <<"A", "B", "D", "E", "F", "G", "H", "C">>

\* C14: has_children is true exactly when the node has a children field,
\* also an empty one; direct_children and total_children are 0 both when
\* the field is absent and when it is present but empty.
C14_HasChildrenIsFieldPresence ==
    Analyzed =>
        \A p \in EmittedPaths :
            LET node == NodeAt(Root, p)
                e == analysis[EntryIndex(p)]
            IN  /\ e.has_children = ("children" \in DOMAIN node)
                /\ ("children" \notin DOMAIN node \/ node.children = <<>>)
                      => (e.direct_children = 0 /\ e.total_children = 0)

C14_Witness ==
    /\ Analyzed
    /\ \E p, q \in EmittedPaths :
          /\ "children" \in DOMAIN NodeAt(Root, p)
          /\ NodeAt(Root, p).children = <<>>
          /\ analysis[EntryIndex(p)].has_children
          /\ "children" \notin DOMAIN NodeAt(Root, q)
          /\ ~analysis[EntryIndex(q)].has_children
          /\ analysis[EntryIndex(p)].total_children
                = analysis[EntryIndex(q)].total_children

\* The list create_predicate_sets ranks: the optimal parents of the tighter
\* profile.
Ranked == find_optimal_parents(analysis, 10, 2)

SetsBuilt == pc = "sets"

\* The positions of the ranked entries that satisfy Window.
WindowIndices(Window(_)) == {i \in 1..Len(Ranked) : Window(Ranked[i])}

\* names is the first-k prefix of the entries satisfying Window, in rank order.
IsWindowPrefix(names, Window(_), k) ==
    LET idx == WindowIndices(Window)
    IN  /\ Len(names) = (IF Cardinality(idx) < k THEN Cardinality(idx) ELSE k)
        /\ \A i \in idx :
              LET pos == 1 + Cardinality({j \in idx : j < i})
              IN  pos <= k => names[pos] = Ranked[i].name

InFocusedWindow(p) == 20 <= p.total_children /\ p.total_children <= 50

InMinimalWindow(p) == 5 <= p.total_children /\ p.total_children <= 20

InHighLevelWindow(p) == p.depth <= 2

\* C15: comprehensive is the names of the first 5 entries of the ranked
\* list (all of them when fewer), in rank order, with no size filter.
C15_ComprehensiveIsTop5 ==
    SetsBuilt =>
        /\ Len(predicate_sets.comprehensive)
              = (IF Len(Ranked) < 5 THEN Len(Ranked) ELSE 5)
        /\ \A i \in 1..Len(predicate_sets.comprehensive) :
              predicate_sets.comprehensive[i] = Ranked[i].name

C15_Witness ==
    /\ SetsBuilt
    /\ Len(Ranked) > 5
    /\ Len(predicate_sets.comprehensive) = 5
    /\ \E i \in 1..5 : Ranked[i].total_children > 50
    /\ \E i \in 1..5 : Ranked[i].total_children < 20

\* C16: focused, minimal and high_level are each the first-k prefix (8, 6,
\* 6) of the ranked entries inside their window, in rank order.
C16_WindowedSetsArePrefixes ==
    SetsBuilt =>
        /\ IsWindowPrefix(predicate_sets.focused, InFocusedWindow, 8)
        /\ IsWindowPrefix(predicate_sets.minimal, InMinimalWindow, 6)
        /\ IsWindowPrefix(predicate_sets.high_level, InHighLevelWindow, 6)

C16_Witness ==
    /\ SetsBuilt
    /\ Cardinality(WindowIndices(InFocusedWindow)) > 8
    /\ Cardinality(WindowIndices(InMinimalWindow)) > 6
    /\ Len(Ranked) > 6
    /\ \E i \in 1..8 : ~InFocusedWindow(Ranked[i])
    /\ \E i \in 1..6 : ~InMinimalWindow(Ranked[i])

(***************************************************************************)
(* Properties of main().                                                   *)
(***************************************************************************)
NothingAnalyzed ==
    /\ analysis = <<>>
    /\ optimal_parents = <<>>
    /\ predicate_sets = <<>>

MarkerMissing ==
    ~\E i \in 1..Len(html_file.content) - 1 :
        html_file.content[i] = "V" /\ html_file.content[i + 1] = "["

LoadFails ==
    \/ ~html_file.exists
    \/ MarkerMissing
    \/ ~load_hierarchy_from_html(html_file).ok

\* C17: started with an argument count other than one positional argument,
\* main prints the usage message and exits non-zero; it loads nothing,
\* analyzes nothing and writes no report.
C17_WrongArgCountOnlyUsage ==
    (Len(argv) # 2 /\ pc # "start") =>
        /\ pc = "exited"
        /\ exit_code = "exit 1"
        /\ stdout = <<Message("Usage", "")>>
        /\ tree_data = <<>>
        /\ NothingAnalyzed
        /\ report_file = "absent"

C17_Witness ==
    /\ pc = "exited"
    /\ Len(argv) = 3
    /\ load_hierarchy_from_html(html_file).ok
    /\ exit_code = "exit 1"

\* C18: when loading or parsing fails, main runs no analysis step, writes no
\* report, prints an error and exits non-zero; a failed report write also
\* ends in an error and a non-zero exit; a run that exits zero has written
\* the report.
C18_FailuresExitNonZero ==
    /\ (Len(argv) = 2 /\ LoadFails /\ pc \notin {"start", "try"}) =>
          /\ pc \in {"except", "exited"}
          /\ tree_data = <<>>
          /\ NothingAnalyzed
          /\ report_file = "absent"
          /\ exception # "none"
          /\ pc = "exited" =>
                /\ exit_code = "exit 1"
                /\ stdout = <<Message("Error", exception)>>
    /\ (pc = "exited" /\ exception = "OSError") =>
          /\ report_file # "written"
          /\ exit_code = "exit 1"
          /\ stdout = <<Message("Error", "OSError")>>
    /\ (pc = "exited" /\ exit_code = "exit 0") =>
          /\ report_file = "written"
          /\ exception = "none"
          /\ ~LoadFails
    /\ (pc = "exited" /\ report_file # "written") => exit_code = "exit 1"

C18_Witness ==
    /\ pc = "exited"
    /\ Len(argv) = 2
    /\ html_file.exists
    /\ ~MarkerMissing
    /\ ~load_hierarchy_from_html(html_file).ok
    /\ load_hierarchy_from_html(html_file).error = "JSONDecodeError"
    /\ exit_code = "exit 1"

(***************************************************************************)
(* Properties of the curated strategy.                                     *)
(***************************************************************************)
Printed(detail) == \E k \in 1..Len(stdout) : stdout[k].detail = detail

\* C19: in the curated table related_to is the only entry marked universal,
\* every other entry is very_high, high or moderate, and related_to is in
\* none of the seven lists create_predicate_sets returns.
C19_RelatedToUniversalAndExcluded ==
    /\ pc # "c_start" =>
          /\ \E i \in 1..Len(analysis) : analysis[i].pred = "related_to"
          /\ \A i \in 1..Len(analysis) :
                IF analysis[i].pred = "related_to"
                THEN /\ analysis[i].coverage = "universal"
                     /\ analysis[i].recommendation = "avoid - too broad"
                ELSE analysis[i].coverage \in {"very_high", "high", "moderate"}
    /\ predicate_sets # <<>> =>
          /\ DOMAIN predicate_sets
                = {CuratedSetNames[n] : n \in 1..Len(CuratedSetNames)}
          /\ Cardinality(DOMAIN predicate_sets) = 7
          /\ \A nm \in DOMAIN predicate_sets :
                \A k \in 1..Len(predicate_sets[nm]) :
                    predicate_sets[nm][k] # "related_to"
    /\ ~Printed("related_to")

C19_Witness ==
    /\ pc = "exited"
    /\ report_file = "written"
    /\ Printed("related_to_at_instance_level")
    /\ Printed("has_part")
    /\ Len(analysis) = 11
    /\ analysis[1].coverage = "universal"

(***************************************************************************)
(* Properties of the traversal as a sequence of calls.                     *)
(***************************************************************************)
\* C20: the traversal enforces a bound of its own on its depth: on a tree
\* deeper than the bound, or on children references that form a cycle, it
\* stops descending by itself, so it is never the interpreter's recursion
\* limit that ends analyze_hierarchy.
C20_TraversalStopsByItself ==
    /\ exception # "RecursionError"
    /\ pc # "recursion_error"

(***************************************************************************)
(* Properties relating the two rankings of one run of main().              *)
(***************************************************************************)
SetNames == {"comprehensive", "focused", "minimal", "high_level"}

\* C21: every name in any of the four computed sets (ranked with
\* min_children=10, max_depth=2) is the name of an entry of optimal_parents
\* (ranked by main's own call with the defaults min_children=5,
\* max_depth=3), and that entry is one create_predicate_sets ranked.
C21_SetNamesAmongOptimalParents ==
    SetsBuilt =>
        /\ DOMAIN predicate_sets = SetNames
        /\ \A nm \in SetNames :
              \A k \in 1..Len(predicate_sets[nm]) :
                  \E j \in 1..Len(optimal_parents) :
                      /\ optimal_parents[j].name = predicate_sets[nm][k]
                      /\ optimal_parents[j].total_children >= 10
                      /\ optimal_parents[j].depth <= 2

C21_Witness ==
    /\ SetsBuilt
    /\ min_children = 5
    /\ max_depth = 3
    /\ \A nm \in SetNames : predicate_sets[nm] # <<>>
    /\ Len(optimal_parents) > Len(Ranked)
    /\ \E j \in 1..Len(Ranked) : optimal_parents[j].name # Ranked[j].name
    /\ \E j \in 1..Len(optimal_parents) : optimal_parents[j].depth = 3
    /\ \E j \in 1..Len(optimal_parents) : optimal_parents[j].total_children < 10

InTightMinimalWindow(p) == 10 <= p.total_children /\ p.total_children <= 20

\* C22: high_level is the names of the first 6 entries of the ranked list
\* (its depth filter removes nothing), so comprehensive is a prefix of
\* high_level; and minimal is drawn only from entries with 10 to 20 total
\* children, never from one with fewer than 10.
C22_LaterWindowsPartlyVacuous ==
    SetsBuilt =>
        /\ Len(predicate_sets.high_level)
              = (IF Len(Ranked) < 6 THEN Len(Ranked) ELSE 6)
        /\ \A i \in 1..Len(predicate_sets.high_level) :
              predicate_sets.high_level[i] = Ranked[i].name
        /\ IsPrefix(predicate_sets.comprehensive, predicate_sets.high_level)
        /\ \A i \in 1..Len(Ranked) : Ranked[i].total_children >= 10
        /\ IsWindowPrefix(predicate_sets.minimal, InTightMinimalWindow, 6)

C22_Witness ==
    /\ SetsBuilt
    /\ Len(Ranked) > 6
    /\ Len(predicate_sets.high_level) = 6
    /\ Len(predicate_sets.comprehensive) = 5
    /\ \E i \in 1..6 : Ranked[i].depth = 2
    /\ \E i \in 1..6 : Ranked[i].depth = 1
    /\ predicate_sets.minimal # <<>>
    /\ \E i \in 1..Len(analysis) :
          /\ analysis[i].has_children
          /\ analysis[i].name # "related_to"
          /\ analysis[i].depth <= 2
          /\ 5 <= analysis[i].total_children
          /\ analysis[i].total_children < 10


====
